---- MODULE Spec2Model ----
(***************************************************************************)
(* Brain GIF Generator (src/app.py): one Streamlit script run per press of *)
(* "Generate GIF".  A run writes the upload into a temporary directory,    *)
(* decodes it, renders a brain, saves one still per sampled time point,    *)
(* assembles the stills into a GIF, shows it and offers it for download.   *)
(* The process environment and the file system are shared by all sessions  *)
(* of the process; everything else is local to a session's script run.     *)
(*                                                                         *)
(* Strings whose order or structure matters (paths, file names) are        *)
(* sequences of character codes; a path is a sequence of such names.       *)
(***************************************************************************)
EXTENDS Integers, Sequences, FiniteSets, TLC

VARIABLES
    env,              \* os.environ['PYVISTA_TRANSPARENT_PLOTTER'], or Absent
    dirs,             \* directories of the file system (set of paths)
    files,            \* regular files of the file system, in creation order
    serial,           \* TRUE when the server runs one script run at a time
    uploaded_file,    \* per session: None, or Some(buffer) of the uploader
    transparent_bg,   \* per session: the "Transparent Background" toggle
    background_color, \* per session: the "Background Color" selectbox
    frame_step,       \* per session: the "Time Step for Frames" slider
    pc,               \* per session: position of the script run
    temp_dir,         \* per session: None, or Some(name of the temp dir)
    times_to_sample,  \* per session: stc.times[::frame_step]
    plot_kwargs,      \* per session: keyword arguments given to stc.plot
    brain,            \* per session: the renderer returned by stc.plot
    i,                \* per session: index of the next frame of the loop
    shown,            \* per session: UI elements written by this run
    exc,              \* per session: None, or Some(exception caught at line 198)
    errorText,        \* per session: text of the st.error element
    progress,         \* per session: frames reported to the progress bar
    displayed,        \* per session: frames of the GIF shown by st.image
    offered,          \* per session: frames of the GIF given to the button
    encoded,          \* per session: the images handed to imageio.mimsave
    calls,            \* per session: external calls made by this run
    flagBefore        \* per session: env when the run entered line 116

globals == <<env, dirs, files, serial>>
inputs  == <<uploaded_file, transparent_bg, background_color, frame_step>>
locals  == <<temp_dir, times_to_sample, plot_kwargs, brain, i, encoded, exc>>
outputs == <<shown, errorText, progress, displayed, offered>>
vars    == <<globals, inputs, pc, locals, outputs, calls, flagBefore>>

(* ------------------------------ bounds -------------------------------- *)
MaxTimes == 4           \* short recordings have 0..MaxTimes time points
LongTimes == 1001       \* a long recording (more stills than three digits)
MaxTempNames == 2       \* names mkdtemp can choose from

(* ------------------------- program constants -------------------------- *)
MinFrameStep == 1
MaxFrameStep == 50
PadWidth == 3
FrameSteps == MinFrameStep..MaxFrameStep
BackgroundColors == {"white", "black"}

Absent == "<absent>"
None == << >>
Some(x) == <<x>>

(* ------------------------------ strings ------------------------------- *)
Slash == 47
Dot == 46
Zero == 48
FramesName == <<102, 114, 97, 109, 101, 115>>                \* "frames"
FramePrefix == <<102, 114, 97, 109, 101, 95>>                \* "frame_"
PngSuffix == <<Dot, 112, 110, 103>>                          \* ".png"
GifName == <<98, 114, 97, 105, 110, 95, 97, 110, 105, 109, 97, 116, 105,
             111, 110, Dot, 103, 105, 102>>                  \* "brain_animation.gif"
UploadName == <<114, 101, 99, Dot, 115, 116, 99>>            \* "rec.stc"
TempName(k) == <<116, 109, 112, Zero + k>>                   \* "tmp<k>"

RECURSIVE Digits(_)
Digits(n) == IF n < 10 THEN <<Zero + n>> ELSE Digits(n \div 10) \o <<Zero + (n % 10)>>

RECURSIVE ZeroPad(_, _)
ZeroPad(s, width) == IF Len(s) >= width THEN s ELSE ZeroPad(<<Zero>> \o s, width)

\* f'frame_{i:03d}.png'
FrameFileName(n) == FramePrefix \o ZeroPad(Digits(n), PadWidth) \o PngSuffix

\* str(path): the components joined by "/"
RECURSIVE PathStr(_)
PathStr(p) == IF Len(p) = 0 THEN << >>
              ELSE <<Slash>> \o Head(p) \o PathStr(Tail(p))

\* Python's str.__lt__: lexicographic by code point, a proper prefix first
RECURSIVE StrLessFrom(_, _, _)
StrLessFrom(a, b, k) ==
    IF k > Len(b) THEN FALSE
    ELSE IF k > Len(a) THEN TRUE
    ELSE IF a[k] # b[k] THEN a[k] < b[k]
    ELSE StrLessFrom(a, b, k + 1)

StrLess(a, b) == StrLessFrom(a, b, 1)

IsPrefix(a, b) == Len(a) <= Len(b) /\ SubSeq(b, 1, Len(a)) = a
IsSuffix(a, b) == Len(a) <= Len(b) /\ SubSeq(b, Len(b) - Len(a) + 1, Len(b)) = a

(* ---------------------------- file system ----------------------------- *)
Join(dir, name) == Append(dir, name)
Parent(p) == SubSeq(p, 1, Len(p) - 1)
Basename(p) == p[Len(p)]

\* the file system keeps its regular files as entries [path, data] in the
\* order of their creation
Paths(fs) == {fs[k].path : k \in DOMAIN fs}
ReadFile(fs, p) == fs[CHOOSE k \in DOMAIN fs : fs[k].path = p].data

\* open(p, "wb") and write, or any library call that saves a file at p
WriteFile(fs, p, data) ==
    IF p \in Paths(fs)
    THEN [k \in DOMAIN fs |-> IF fs[k].path = p THEN [path |-> p, data |-> data] ELSE fs[k]]
    ELSE Append(fs, [path |-> p, data |-> data])

\* a removal that deletes the files directly in root and none below
RmtreeFilesFlat(fs, root) == SelectSeq(fs, LAMBDA e : Parent(e.path) # root)

\* shutil.rmtree as TemporaryDirectory.cleanup applies it
RmtreeDirs(ds, root) == {d \in ds : ~IsPrefix(root, d)}
RmtreeFiles(fs, root) == SelectSeq(fs, LAMBDA e : ~IsPrefix(root, e.path))

\* fnmatch of a file name against 'frame_*.png'
MatchesFrame(name) ==
    /\ Len(name) >= Len(FramePrefix) + Len(PngSuffix)
    /\ IsPrefix(FramePrefix, name)
    /\ IsSuffix(PngSuffix, name)

\* glob.glob(str(dir / 'frame_*.png')): the matching paths, in directory order
Glob(fs, dir) ==
    LET hits == SelectSeq(fs, LAMBDA e : /\ Len(e.path) = Len(dir) + 1
                                         /\ Parent(e.path) = dir
                                         /\ MatchesFrame(Basename(e.path)))
    IN  [k \in DOMAIN hits |-> hits[k].path]

\* F(v), with v evaluated once
With(v, F(_)) == CHOOSE r \in {F(x) : x \in {v}} : TRUE

\* sorted(paths): ascending by the path strings
Sorted(paths) ==
    LET Keyed(ps) == [k \in DOMAIN ps |-> [key |-> PathStr(ps[k]), path |-> ps[k]]]
        PathsOf(es) == [k \in DOMAIN es |-> es[k].path]
        ByKey(es) == SortSeq(es, LAMBDA a, b : StrLess(a.key, b.key))
    IN  With(With(With(paths, Keyed), ByKey), PathsOf)

\* imageio.imread of every file of the list
ReadImages(fs, filenames) ==
    LET ReadAll(names) == [k \in DOMAIN names |-> ReadFile(fs, names[k])[1]]
    IN  With(filenames, ReadAll)

(* --------------------------- the recording ---------------------------- *)
\* stc.times of a recording with n time points (ascending, here 0..n-1)
Times(n) == [k \in 1..n |-> k - 1]

\* a slice that drops the last, partial stride
StrideWholeOnly(seq, step) == [k \in 1..(Len(seq) \div step) |-> seq[(k - 1) * step + 1]]

\* seq[::step]
Stride(seq, step) == [k \in 1..((Len(seq) + step - 1) \div step) |-> seq[(k - 1) * step + 1]]

(* ---------------------------- the renderer ---------------------------- *)
NoBrain == [exists |-> FALSE, open |-> FALSE, time |-> -1, flag |-> Absent]

BaseKwargs == [subject |-> "fsaverage", time_viewer |-> FALSE, show_traces |-> FALSE]

\* keyword arguments that pass the colour whatever the toggle says
PlotKwargsWithColour(transparent, colour) ==
    [k \in DOMAIN BaseKwargs \cup (IF transparent THEN {"transparent"} ELSE {}) \cup {"background"} |->
        IF k = "transparent" THEN TRUE
        ELSE IF k = "background" THEN colour ELSE BaseKwargs[k]]

\* lines 136-153
PlotKwargs(transparent, colour) ==
    IF transparent
    THEN [k \in DOMAIN BaseKwargs \cup {"transparent"} |->
              IF k = "transparent" THEN TRUE ELSE BaseKwargs[k]]
    ELSE [k \in DOMAIN BaseKwargs \cup {"background"} |->
              IF k = "background" THEN colour ELSE BaseKwargs[k]]

(* ------------------------------- states ------------------------------- *)
Sessions == DOMAIN pc

NoFileMessage == <<"Please upload a file first.">>
FailureMessage(e) == <<"An error occurred during GIF generation: ", e>>

InitWith(sessions, lengths, steps, colours, flags, modes) ==
    /\ env \in flags
    /\ dirs = {}
    /\ files = << >>
    /\ serial \in modes
    /\ uploaded_file \in [sessions -> {None} \cup {Some(<<n>>) : n \in lengths}]
    /\ transparent_bg \in [sessions -> BOOLEAN]
    /\ background_color \in [sessions -> colours]
    /\ frame_step \in [sessions -> steps]
    /\ pc = [s \in sessions |-> "idle"]
    /\ temp_dir = [s \in sessions |-> None]
    /\ times_to_sample = [s \in sessions |-> << >>]
    /\ plot_kwargs = [s \in sessions |-> << >>]
    /\ brain = [s \in sessions |-> NoBrain]
    /\ i = [s \in sessions |-> 0]
    /\ shown = [s \in sessions |-> {}]
    /\ errorText = [s \in sessions |-> << >>]
    /\ progress = [s \in sessions |-> 0]
    /\ displayed = [s \in sessions |-> None]
    /\ offered = [s \in sessions |-> None]
    /\ encoded = [s \in sessions |-> None]
    /\ exc = [s \in sessions |-> None]
    /\ calls = [s \in sessions |-> {}]
    /\ flagBefore = [s \in sessions |-> Absent]

\* one session; short recordings and the 100-point recording of the example
Init == InitWith({1}, (0..MaxTimes) \cup {100}, FrameSteps,
                 BackgroundColors, {Absent, "True", "1"}, {TRUE})

\* one session, a long recording sampled at every time point
InitLong == InitWith({1}, {LongTimes}, {MinFrameStep}, {"white"}, {Absent}, {TRUE})

\* two sessions of one server process, run one at a time or interleaved
InitConcurrent == InitWith({1, 2}, {1}, {MinFrameStep}, {"white"}, {Absent, "1"},
                           BOOLEAN)

(* ------------------------------ the run ------------------------------- *)
Busy(s) == pc[s] \notin {"idle", "done"}

\* the server starts a script run; a serial server waits for the others
MayStart(s) == pc[s] = "idle" /\ (serial => \A t \in Sessions \ {s} : ~Busy(t))

\* a run that forgets to set the flag
GenerateWithFileNoFlag(s) ==
    /\ MayStart(s)
    /\ uploaded_file[s] # None
    /\ flagBefore' = [flagBefore EXCEPT ![s] = env]
    /\ pc' = [pc EXCEPT ![s] = "tempdir"]
    /\ UNCHANGED <<globals, inputs, locals, outputs, calls>>

\* lines 116-121: Generate pressed with a file in the uploader
GenerateWithFile(s) ==
    /\ MayStart(s)
    /\ uploaded_file[s] # None
    /\ flagBefore' = [flagBefore EXCEPT ![s] = env]
    /\ env' = IF transparent_bg[s] THEN "True" ELSE env
    /\ pc' = [pc EXCEPT ![s] = "tempdir"]
    /\ UNCHANGED <<dirs, files, serial, inputs, locals, outputs, calls>>

\* the flag set above the test for the file
GenerateNoFileFlagFirst(s) ==
    /\ MayStart(s)
    /\ uploaded_file[s] = None
    /\ flagBefore' = [flagBefore EXCEPT ![s] = env]
    /\ env' = IF transparent_bg[s] THEN "True" ELSE env
    /\ shown' = [shown EXCEPT ![s] = @ \cup {"error"}]
    /\ errorText' = [errorText EXCEPT ![s] = NoFileMessage]
    /\ pc' = [pc EXCEPT ![s] = "done"]
    /\ UNCHANGED <<dirs, files, serial, inputs, locals, progress, displayed, offered, calls>>

\* lines 205-206: Generate pressed with an empty uploader
GenerateNoFile(s) ==
    /\ MayStart(s)
    /\ uploaded_file[s] = None
    /\ flagBefore' = [flagBefore EXCEPT ![s] = env]
    /\ shown' = [shown EXCEPT ![s] = @ \cup {"error"}]
    /\ errorText' = [errorText EXCEPT ![s] = NoFileMessage]
    /\ pc' = [pc EXCEPT ![s] = "done"]
    /\ UNCHANGED <<globals, inputs, locals, progress, displayed, offered, calls>>

\* lines 122-127: TemporaryDirectory() and the copy of the upload into it
MakeTempDir(s) ==
    /\ pc[s] = "tempdir"
    /\ \E k \in 1..MaxTempNames :
         /\ <<TempName(k)>> \notin dirs
         /\ temp_dir' = [temp_dir EXCEPT ![s] = Some(TempName(k))]
         /\ dirs' = dirs \cup {<<TempName(k)>>}
         /\ files' = WriteFile(files, Join(<<TempName(k)>>, UploadName), uploaded_file[s][1])
    /\ calls' = [calls EXCEPT ![s] = @ \cup {"mkdtemp", "write"}]
    /\ pc' = [pc EXCEPT ![s] = "decode"]
    /\ UNCHANGED <<env, serial, inputs, times_to_sample, plot_kwargs, brain, i, encoded, exc,
                   outputs, flagBefore>>

TempPath(s) == <<temp_dir[s][1]>>
FramesDir(s) == Join(TempPath(s), FramesName)
GifPath(s) == Join(TempPath(s), GifName)

\* lines 130-134: read_source_estimate(temp_stc_path) and the sampling
Decode(s) ==
    /\ pc[s] = "decode"
    /\ LET stc == ReadFile(files, Join(TempPath(s), UploadName))
       IN  times_to_sample' = [times_to_sample EXCEPT ![s] = Stride(Times(stc[1]), frame_step[s])]
    /\ calls' = [calls EXCEPT ![s] = @ \cup {"read_source_estimate"}]
    /\ pc' = [pc EXCEPT ![s] = "render"]
    /\ UNCHANGED <<globals, inputs, temp_dir, plot_kwargs, brain, i, encoded, exc, outputs, flagBefore>>

\* lines 136-155: stc.plot(**plot_kwargs); the renderer reads the environment
Render(s) ==
    /\ pc[s] = "render"
    /\ plot_kwargs' = [plot_kwargs EXCEPT ![s] = PlotKwargs(transparent_bg[s], background_color[s])]
    /\ brain' = [brain EXCEPT ![s] = [exists |-> TRUE, open |-> TRUE, time |-> -1, flag |-> env]]
    /\ calls' = [calls EXCEPT ![s] = @ \cup {"plot"}]
    /\ pc' = [pc EXCEPT ![s] = "prepare"]
    /\ UNCHANGED <<globals, inputs, temp_dir, times_to_sample, i, encoded, exc, outputs, flagBefore>>

\* lines 157-160: st.info, st.progress(0), frames_dir.mkdir()
Prepare(s) ==
    /\ pc[s] = "prepare"
    /\ shown' = [shown EXCEPT ![s] = @ \cup {"info", "progress"}]
    /\ progress' = [progress EXCEPT ![s] = 0]
    /\ dirs' = dirs \cup {FramesDir(s)}
    /\ i' = [i EXCEPT ![s] = 0]
    /\ pc' = [pc EXCEPT ![s] = "frame"]
    /\ UNCHANGED <<env, files, serial, inputs, temp_dir, times_to_sample, plot_kwargs, brain,
                   encoded, exc, errorText, displayed, offered, calls, flagBefore>>

\* lines 162-166: one iteration of the frame loop
Frame(s) ==
    /\ pc[s] = "frame"
    /\ i[s] < Len(times_to_sample[s])
    /\ LET t == times_to_sample[s][i[s] + 1]
           screenshot_path == Join(FramesDir(s), FrameFileName(i[s]))
       IN  /\ brain' = [brain EXCEPT ![s].time = t]
           /\ files' = WriteFile(files, screenshot_path, <<t>>)
    /\ progress' = [progress EXCEPT ![s] = i[s] + 1]
    /\ i' = [i EXCEPT ![s] = @ + 1]
    /\ calls' = [calls EXCEPT ![s] = @ \cup {"save_image"}]
    /\ UNCHANGED <<env, dirs, serial, inputs, pc, temp_dir, times_to_sample, plot_kwargs,
                   encoded, exc, shown, errorText, displayed, offered, flagBefore>>

\* line 168: the loop is over, brain.close()
Close(s) ==
    /\ pc[s] = "frame"
    /\ i[s] = Len(times_to_sample[s])
    /\ brain' = [brain EXCEPT ![s].open = FALSE]
    /\ pc' = [pc EXCEPT ![s] = "assemble"]
    /\ UNCHANGED <<globals, inputs, temp_dir, times_to_sample, plot_kwargs, i, encoded, exc,
                   outputs, calls, flagBefore>>

\* lines 171-183: sorted(glob), imread of every file, mimsave
Assemble(s) ==
    /\ pc[s] = "assemble"
    /\ \E frame_files \in {Sorted(Glob(files, FramesDir(s)))} :
         \E images \in {ReadImages(files, frame_files)} :
            /\ encoded' = [encoded EXCEPT ![s] = Some(images)]
            /\ files' = WriteFile(files, GifPath(s), images)
    /\ calls' = [calls EXCEPT ![s] = @ \cup {"imread", "mimsave"}]
    /\ pc' = [pc EXCEPT ![s] = "success"]
    /\ UNCHANGED <<env, dirs, serial, inputs, temp_dir, times_to_sample, plot_kwargs, brain, i,
                   exc, outputs, flagBefore>>

\* line 186: st.success
Success(s) ==
    /\ pc[s] = "success"
    /\ shown' = [shown EXCEPT ![s] = @ \cup {"success"}]
    /\ pc' = [pc EXCEPT ![s] = "image"]
    /\ UNCHANGED <<globals, inputs, locals, errorText, progress, displayed, offered, calls,
                   flagBefore>>

\* line 188: st.image(str(gif_path))
Image(s) ==
    /\ pc[s] = "image"
    /\ shown' = [shown EXCEPT ![s] = @ \cup {"image"}]
    /\ displayed' = [displayed EXCEPT ![s] = Some(ReadFile(files, GifPath(s)))]
    /\ pc' = [pc EXCEPT ![s] = "download"]
    /\ UNCHANGED <<globals, inputs, locals, errorText, progress, offered, calls, flagBefore>>

\* lines 190-196: open(gif_path) and st.download_button
Download(s) ==
    /\ pc[s] = "download"
    /\ shown' = [shown EXCEPT ![s] = @ \cup {"download"}]
    /\ offered' = [offered EXCEPT ![s] = Some(ReadFile(files, GifPath(s)))]
    /\ pc' = [pc EXCEPT ![s] = "leave"]
    /\ UNCHANGED <<globals, inputs, locals, errorText, progress, displayed, calls, flagBefore>>

\* TemporaryDirectory.__exit__: the directory and all below it are removed
CleanupTempDir(s) ==
    IF temp_dir[s] = None
    THEN UNCHANGED <<dirs, files>>
    ELSE /\ dirs' = RmtreeDirs(dirs, TempPath(s))
         /\ files' = RmtreeFiles(files, TempPath(s))

\* line 122 (end of the with block), normal exit
Leave(s) ==
    /\ pc[s] = "leave"
    /\ CleanupTempDir(s)
    /\ pc' = [pc EXCEPT ![s] = "finally"]
    /\ UNCHANGED <<env, serial, inputs, locals, outputs, calls, flagBefore>>

\* the steps inside the try block (lines 122-196) that can raise
Fallible == {"tempdir", "decode", "render", "prepare", "frame", "assemble",
             "success", "image", "download"}

\* an except clause that swallows the exception
RaiseSilently(s) ==
    /\ pc[s] \in Fallible
    /\ CleanupTempDir(s)
    /\ exc' = [exc EXCEPT ![s] = Some(pc[s])]
    /\ pc' = [pc EXCEPT ![s] = "finally"]
    /\ UNCHANGED <<env, serial, inputs, temp_dir, times_to_sample, plot_kwargs, brain, i, encoded,
                   outputs, calls, flagBefore>>

\* lines 198-199: the step at pc raises; the with block is left, st.error
Raise(s) ==
    /\ pc[s] \in Fallible
    /\ CleanupTempDir(s)
    /\ exc' = [exc EXCEPT ![s] = Some(pc[s])]
    /\ shown' = [shown EXCEPT ![s] = @ \cup {"error"}]
    /\ errorText' = [errorText EXCEPT ![s] = FailureMessage(pc[s])]
    /\ pc' = [pc EXCEPT ![s] = "finally"]
    /\ UNCHANGED <<env, serial, inputs, temp_dir, times_to_sample, plot_kwargs, brain, i, encoded,
                   progress, displayed, offered, calls, flagBefore>>

\* a cleanup that runs at the end of the try block instead of in finally
FinallyOnSuccessOnly(s) ==
    /\ pc[s] = "finally"
    /\ env' = IF exc[s] = None /\ env # Absent THEN Absent ELSE env
    /\ pc' = [pc EXCEPT ![s] = "done"]
    /\ UNCHANGED <<dirs, files, serial, inputs, locals, outputs, calls, flagBefore>>

\* a cleanup that deletes the flag only when this run has set it
FinallyOwnFlag(s) ==
    /\ pc[s] = "finally"
    /\ env' = IF transparent_bg[s] /\ env # Absent THEN Absent ELSE env
    /\ pc' = [pc EXCEPT ![s] = "done"]
    /\ UNCHANGED <<dirs, files, serial, inputs, locals, outputs, calls, flagBefore>>

\* lines 201-203
Finally(s) ==
    /\ pc[s] = "finally"
    /\ env' = IF env # Absent THEN Absent ELSE env
    /\ pc' = [pc EXCEPT ![s] = "done"]
    /\ UNCHANGED <<dirs, files, serial, inputs, locals, outputs, calls, flagBefore>>

\* the next script run of the session: Streamlit re-executes the script from
\* the top; the widgets keep their values, the run's names and elements go
Rerun(s) ==
    /\ pc[s] = "done"
    /\ pc' = [pc EXCEPT ![s] = "idle"]
    /\ temp_dir' = [temp_dir EXCEPT ![s] = None]
    /\ times_to_sample' = [times_to_sample EXCEPT ![s] = << >>]
    /\ plot_kwargs' = [plot_kwargs EXCEPT ![s] = << >>]
    /\ brain' = [brain EXCEPT ![s] = NoBrain]
    /\ i' = [i EXCEPT ![s] = 0]
    /\ encoded' = [encoded EXCEPT ![s] = None]
    /\ exc' = [exc EXCEPT ![s] = None]
    /\ shown' = [shown EXCEPT ![s] = {}]
    /\ errorText' = [errorText EXCEPT ![s] = << >>]
    /\ progress' = [progress EXCEPT ![s] = 0]
    /\ displayed' = [displayed EXCEPT ![s] = None]
    /\ offered' = [offered EXCEPT ![s] = None]
    /\ calls' = [calls EXCEPT ![s] = {}]
    /\ flagBefore' = [flagBefore EXCEPT ![s] = Absent]
    /\ UNCHANGED <<globals, inputs>>

Next ==
    \E s \in Sessions :
        \/ GenerateWithFile(s)
        \/ GenerateNoFile(s)
        \/ MakeTempDir(s)
        \/ Decode(s)
        \/ Render(s)
        \/ Prepare(s)
        \/ Frame(s)
        \/ Close(s)
        \/ Assemble(s)
        \/ Success(s)
        \/ Image(s)
        \/ Download(s)
        \/ Leave(s)
        \/ Raise(s)
        \/ Finally(s)
        \/ Rerun(s)

Spec == Init /\ [][Next]_vars
SpecLong == InitLong /\ [][Next]_vars
SpecConcurrent == InitConcurrent /\ [][Next]_vars

(* ------------------------------ claims -------------------------------- *)
HasFile(s) == uploaded_file[s] # None
Ended(s) == pc[s] = "done"
NumTimes(s) == uploaded_file[s][1][1]
\* the files below the frames directory of the run, in creation order
Stills(s) == SelectSeq(files, LAMBDA e : IsPrefix(FramesDir(s), e.path))
\* ceil(t / n) for n > 0: the least m with m * n >= t
CeilDiv(t, n) == CHOOSE m \in 0..t : m * n >= t /\ (m = 0 \/ (m - 1) * n < t)

\* C1: once a run that entered the processing branch has ended, the flag is
\* absent from the environment, whatever the toggle and however the run ended.
FlagAbsentAfterRequest ==
    \A s \in Sessions : Ended(s) /\ HasFile(s) => env = Absent

\* a transparent run that failed and is over
WitnessFlagAbsent ==
    \E s \in Sessions : /\ Ended(s) /\ HasFile(s) /\ transparent_bg[s]
                        /\ exc[s] # None /\ env = Absent

\* C2: in a run without error the frames given to the encoder are the stills
\* of the sampled time points, as many as there are and in their order.
EncodedInTimeOrder ==
    \A s \in Sessions : encoded[s] # None => encoded[s][1] = times_to_sample[s]

\* C3: when the frame loop is over there are ceil(T / N) stills, the k-th
\* saved one named for index k-1 and showing time point (k-1) * N.
StillCountIsCeil ==
    \A s \in Sessions :
        pc[s] = "assemble" =>
            /\ Len(Stills(s)) = CeilDiv(NumTimes(s), frame_step[s])
            /\ \A k \in 1..Len(Stills(s)) :
                  /\ Stills(s)[k].path = Join(FramesDir(s), FrameFileName(k - 1))
                  /\ Stills(s)[k].data = <<(k - 1) * frame_step[s]>>
                  /\ (k - 1) * frame_step[s] < NumTimes(s)

\* 100 time points at stride 20: five stills
WitnessFiveStills ==
    \E s \in Sessions : /\ pc[s] = "assemble" /\ NumTimes(s) = 100 /\ frame_step[s] = 20
                        /\ Len(Stills(s)) = 5

\* C4: a run with an empty uploader shows the upload message and does
\* nothing else: flag untouched, nothing on disk, no call, no download.
NoFileNoProcessing ==
    \A s \in Sessions :
        Ended(s) /\ ~HasFile(s) =>
            /\ shown[s] = {"error"} /\ errorText[s] = NoFileMessage
            /\ env = flagBefore[s]
            /\ temp_dir[s] = None /\ dirs = {} /\ files = << >>
            /\ calls[s] = {} /\ brain[s] = NoBrain /\ encoded[s] = None
            /\ displayed[s] = None /\ offered[s] = None

WitnessNoFile ==
    \E s \in Sessions : /\ Ended(s) /\ ~HasFile(s) /\ transparent_bg[s]
                        /\ env = "1" /\ errorText[s] = NoFileMessage

\* C5: a run in which a step raised shows the error message with the
\* exception's text and has not offered the download.
FailureReportedNoDownload ==
    \A s \in Sessions :
        exc[s] # None =>
            /\ "error" \in shown[s]
            /\ errorText[s] = FailureMessage(exc[s][1])
            /\ "download" \notin shown[s] /\ offered[s] = None

\* the download button itself raised
WitnessDownloadRaised ==
    \E s \in Sessions : Ended(s) /\ exc[s] = Some("download") /\ "error" \in shown[s]

\* C6: a failed run has shown neither the success message nor the image.
NoPartialOutput ==
    \A s \in Sessions :
        "error" \in shown[s] => "success" \notin shown[s] /\ "image" \notin shown[s]

\* C7: every file and directory lies below the temporary directory of a run
\* that is still inside its with block; a run that left it leaves nothing.
InsideWith(s) == temp_dir[s] # None /\ pc[s] \notin {"idle", "finally", "done"}
TransientsScoped ==
    /\ \A p \in dirs \cup Paths(files) :
          \E s \in Sessions : InsideWith(s) /\ IsPrefix(TempPath(s), p)
    /\ \A s \in Sessions :
          temp_dir[s] # None /\ ~InsideWith(s) =>
              \A p \in dirs \cup Paths(files) : ~IsPrefix(TempPath(s), p)

\* a run that failed after saving stills, and is over
WitnessCleanedAfterFailure ==
    \E s \in Sessions : /\ Ended(s) /\ exc[s] = Some("frame") /\ i[s] > 1
                        /\ temp_dir[s] # None /\ dirs = {} /\ files = << >>

\* C8 as stated: the flag after a run is the flag before it.
FlagRestored ==
    \A s \in Sessions : Ended(s) => env = flagBefore[s]

\* C8 amended: a run with a file leaves the flag absent, which restores it
\* only when it was absent before; a run without a file leaves it as it was.
FlagClearedNotRestored ==
    \A s \in Sessions :
        Ended(s) =>
            /\ HasFile(s) /\ flagBefore[s] = Absent => env = flagBefore[s]
            /\ HasFile(s) /\ flagBefore[s] # Absent => env = Absent
            /\ ~HasFile(s) => env = flagBefore[s]

\* a run without transparency that found the flag present and removed it
WitnessPresetFlagRemoved ==
    \E s \in Sessions : /\ Ended(s) /\ HasFile(s) /\ ~transparent_bg[s]
                        /\ flagBefore[s] = "1" /\ env = Absent

\* C9: the render call gets exactly one of 'transparent' and 'background':
\* 'transparent' = True and no colour when the toggle is on, the selected
\* colour when it is off, and then the run has not set the flag.
ColourInertWhenTransparent ==
    \A s \in Sessions :
        brain[s].exists =>
            LET keys == DOMAIN plot_kwargs[s] IN
            /\ ("transparent" \in keys) # ("background" \in keys)
            /\ transparent_bg[s] => /\ "transparent" \in keys
                                    /\ plot_kwargs[s]["transparent"] = TRUE
                                    /\ "background" \notin keys
            /\ ~transparent_bg[s] => /\ "background" \in keys
                                     /\ plot_kwargs[s]["background"] = background_color[s]
                                     /\ "transparent" \notin keys
                                     /\ brain[s].flag = flagBefore[s]

WitnessBlackIgnored ==
    \E s \in Sessions : /\ brain[s].exists /\ transparent_bg[s]
                        /\ background_color[s] = "black"
                        /\ "background" \notin DOMAIN plot_kwargs[s]

\* C10: when runs do not interleave, a transparent run renders with the flag
\* it has set and no other run renders with a flag a run has set; when two
\* runs interleave both can happen (the witness).
SerialRendersSeeOwnFlag ==
    serial =>
        \A s \in Sessions :
            brain[s].exists =>
                /\ transparent_bg[s] => brain[s].flag = "True"
                /\ ~transparent_bg[s] => brain[s].flag # "True"

\* interleaved: one run rendered transparent without the flag, the other
\* rendered opaque with the flag the first had set
WitnessInterleavedRenders ==
    /\ ~serial
    /\ \E s, t \in Sessions :
          /\ s # t
          /\ brain[s].exists /\ transparent_bg[s] /\ brain[s].flag = Absent
          /\ brain[t].exists /\ ~transparent_bg[t] /\ brain[t].flag = "True"
====
